---- MODULE Spec2Model ----
(***************************************************************************)
(* Booking-token and appointment-booking core of the barbershop scheduling *)
(* backend.  Every request is an independent worker; the only shared state *)
(* is the storage rows.  A use case is modelled as one process whose steps *)
(* are its storage calls (each `await`) and the synchronous code that runs *)
(* between two storage calls (where the clock is read).                    *)
(*                                                                         *)
(*   Spec      booking-token issuer and validator                          *)
(*   BookSpec  appointment booking and cancellation, concurrent            *)
(*   SeqSpec   the same operations, one request at a time                  *)
(*   EvalSpec  the pure token state evaluator over bounded inputs          *)
(*                                                                         *)
(* Timestamps are milliseconds.  The cleanup method deleteExpired of the   *)
(* token repository has no caller in the repository, and is not an action. *)
(***************************************************************************)
EXTENDS Integers, Sequences, FiniteSets, TLC

\* ---------------------------------------------------------------- bounds
NumValidators == 2
MaxTokens == 1
MaxPlain == 2
MaxAttempts == 6
MaxTicks == 2
NumBookers == 2
NumCancelers == 1
MaxAppointments == 2

\* ------------------------------------------------------ program constants
TOKEN_EXPIRY_MINUTES == 15
MAX_VALIDATION_ATTEMPTS == 5
RATE_LIMIT_WINDOW_MS == 60 * 1000

NULL == -1

VARIABLES
    now,          \* wall clock (Date.now())
    ticks,        \* number of clock advances so far
    tokens,       \* BookingToken table: sequence of rows, id = index
    issueOut,     \* outcome of the last CreateBookingTokenUseCase.execute
    val,          \* per validate request: position and local variables
    sessions,     \* per token id: BookingSessions returned
    usedWrites,   \* per token id: number of writes of usedAt
    incDone,      \* per token id: completed incrementValidationAttempts
    passed,       \* per token id: state checks that did not answer rate_limited
    crashed,      \* per token id: a request died between increment and markAsUsed
    rsp           \* per request: the reply of validateBookingTokenController

tokenVars == <<now, ticks, tokens, issueOut, val, sessions, usedWrites, incDone,
               passed, crashed, rsp>>

Validators == 1..NumValidators
TokenIds == 1..MaxTokens
Plaintexts == 1..MaxPlain
\* rows of the Barbershop and Barber tables (no modelled handler writes them)
BarbershopTable == {1, 2, 4}
BarberTable == {[id |-> 1, barbershopId |-> 1], [id |-> 2, barbershopId |-> 2]}
\* values a request body may carry: barbershop 3 has no row, barber 2 works
\* in the other barbershop, phone 0 is too short for the body schema
Barbershops == {1, 3}
BarberChoices == {NULL, 1, 2}
Phones == {1}
ShortPhone == 0
PhoneLength(customerPhone) == IF customerPhone = ShortPhone THEN 3 ELSE 14

TickSteps == {RATE_LIMIT_WINDOW_MS, TOKEN_EXPIRY_MINUTES * 60 * 1000}

\* ------------------------------------------------ BookingTokenService
\* SHA-256 digest: deterministic and collision free on the plaintexts used
hashToken(plainToken) == 100 + ((plainToken * 7) % 13)

calculateExpiry(minutes, t) == t + minutes * 60 * 1000

NullRow ==
    [id |-> 0, tokenHash |-> 0, barbershopId |-> 0, barberId |-> NULL,
     customerPhone |-> 0, expiresAt |-> 0, usedAt |-> NULL, singleUse |-> TRUE,
     validationAttempts |-> 0, lastAttemptAt |-> NULL]

validateTokenState_WindowInclusive(tokenData, t) ==
    IF tokenData.id = 0 THEN "not_found"
    ELSE IF /\ tokenData.validationAttempts >= MAX_VALIDATION_ATTEMPTS
            /\ tokenData.lastAttemptAt # NULL
            /\ t - tokenData.lastAttemptAt <= RATE_LIMIT_WINDOW_MS
         THEN "rate_limited"
    ELSE IF t > tokenData.expiresAt THEN "expired"
    ELSE IF tokenData.singleUse /\ tokenData.usedAt # NULL THEN "already_used"
    ELSE "valid"

validateTokenState_ExpiryFirst(tokenData, t) ==
    IF tokenData.id = 0 THEN "not_found"
    ELSE IF t > tokenData.expiresAt THEN "expired"
    ELSE IF /\ tokenData.validationAttempts >= MAX_VALIDATION_ATTEMPTS
            /\ tokenData.lastAttemptAt # NULL
            /\ t - tokenData.lastAttemptAt < RATE_LIMIT_WINDOW_MS
         THEN "rate_limited"
    ELSE IF tokenData.singleUse /\ tokenData.usedAt # NULL THEN "already_used"
    ELSE "valid"

validateTokenState_NoExpiry(tokenData, t) ==
    IF tokenData.id = 0 THEN "not_found"
    ELSE IF /\ tokenData.validationAttempts >= MAX_VALIDATION_ATTEMPTS
            /\ tokenData.lastAttemptAt # NULL
            /\ t - tokenData.lastAttemptAt < RATE_LIMIT_WINDOW_MS
         THEN "rate_limited"
    ELSE IF tokenData.singleUse /\ tokenData.usedAt # NULL THEN "already_used"
    ELSE "valid"

\* a null lastAttemptAt has infinite age: never inside the window
validateTokenState(tokenData, t) ==
    IF tokenData.id = 0 THEN "not_found"
    ELSE IF /\ tokenData.validationAttempts >= MAX_VALIDATION_ATTEMPTS
            /\ tokenData.lastAttemptAt # NULL
            /\ t - tokenData.lastAttemptAt < RATE_LIMIT_WINDOW_MS
         THEN "rate_limited"
    ELSE IF t > tokenData.expiresAt THEN "expired"
    ELSE IF tokenData.singleUse /\ tokenData.usedAt # NULL THEN "already_used"
    ELSE "valid"

\* -------------------------------------- PrismaBookingTokenRepository
findByHash(rows, tokenHash) ==
    IF \E i \in 1..Len(rows) : rows[i].tokenHash = tokenHash
    THEN rows[CHOOSE i \in 1..Len(rows) : rows[i].tokenHash = tokenHash]
    ELSE NullRow

\* unique index BookingToken_tokenHash_key
TokenHashTaken(rows, tokenHash) ==
    \E i \in 1..Len(rows) : rows[i].tokenHash = tokenHash

createToken_DropBarber(rows, input) ==
    Append(rows,
        [id |-> Len(rows) + 1, tokenHash |-> input.tokenHash,
         barbershopId |-> input.barbershopId, barberId |-> NULL,
         customerPhone |-> input.customerPhone, expiresAt |-> input.expiresAt,
         usedAt |-> NULL, singleUse |-> input.singleUse,
         validationAttempts |-> 0, lastAttemptAt |-> NULL])

createToken(rows, input) ==
    Append(rows,
        [id |-> Len(rows) + 1, tokenHash |-> input.tokenHash,
         barbershopId |-> input.barbershopId, barberId |-> input.barberId,
         customerPhone |-> input.customerPhone, expiresAt |-> input.expiresAt,
         usedAt |-> NULL, singleUse |-> input.singleUse,
         validationAttempts |-> 0, lastAttemptAt |-> NULL])

markAsUsed_Skip(rows, id, usedAt) == rows

markAsUsed_ResetAttempts(rows, id, usedAt) ==
    [rows EXCEPT ![id].usedAt = usedAt, ![id].validationAttempts = 0]

markAsUsed(rows, id, usedAt) ==
    [rows EXCEPT ![id].usedAt = usedAt]

incrementValidationAttempts_NoCount(rows, id, lastAttemptAt) ==
    [rows EXCEPT ![id].lastAttemptAt = lastAttemptAt]

incrementValidationAttempts_TouchUsedAt(rows, id, lastAttemptAt) ==
    [rows EXCEPT ![id].validationAttempts = @ + 1,
                 ![id].lastAttemptAt = lastAttemptAt,
                 ![id].usedAt = lastAttemptAt]

\* validationAttempts: { increment: 1 } is applied by the storage
incrementValidationAttempts(rows, id, lastAttemptAt) ==
    [rows EXCEPT ![id].validationAttempts = @ + 1,
                 ![id].lastAttemptAt = lastAttemptAt]

\* ------------------------------------------------------------ clock
Tick ==
    /\ ticks < MaxTicks
    /\ \E d \in TickSteps : now' = now + d
    /\ ticks' = ticks + 1
    /\ UNCHANGED <<tokens, issueOut, val, sessions, usedWrites, incDone, passed>>

\* --------------------------------------- CreateBookingTokenUseCase
NoIssue ==
    [status |-> 0, message |-> "none", bookingUrl |-> <<>>, expiresAt |-> NULL,
     input |-> [barbershopId |-> 0, barberId |-> NULL, customerPhone |-> 0]]

\* `${baseUrl}/booking/${plainToken}` as its path segments
BookingUrl(plainToken) == <<"http://localhost:3000", "booking", plainToken>>
LastSegment(url) == url[Len(url)]

\* prisma.barbershop.findUnique({ id })
BarbershopExists(barbershopId) == barbershopId \in BarbershopTable
BarberInBarbershop_AnyShop(barberId, barbershopId) ==
    \E b \in BarberTable : b.id = barberId

\* prisma.barber.findFirst({ id, barbershopId })
BarberInBarbershop(barberId, barbershopId) ==
    \E b \in BarberTable : b.id = barberId /\ b.barbershopId = barbershopId

LinkError(status, message, input) ==
    [status |-> status, message |-> message, bookingUrl |-> <<>>,
     expiresAt |-> NULL, input |-> input]

\* createBookingLinkController with CreateBookingTokenUseCase.execute;
\* generateToken draws 32 random bytes, so the plaintext is a fresh one
Issue ==
    /\ Len(tokens) < MaxTokens
    /\ \E plainToken \in Plaintexts, barbershopId \in Barbershops,
          barberId \in BarberChoices, customerPhone \in Phones \cup {ShortPhone} :
         LET tokenHash == hashToken(plainToken)
             expiresAt == calculateExpiry(TOKEN_EXPIRY_MINUTES, now)
             input == [barbershopId |-> barbershopId, barberId |-> barberId,
                       customerPhone |-> customerPhone]
         IN /\ ~TokenHashTaken(tokens, tokenHash)
            /\ IF PhoneLength(customerPhone) < 10 \/ PhoneLength(customerPhone) > 15
               THEN /\ issueOut' = LinkError(400, "Validation error", input)
                    /\ UNCHANGED tokens
               ELSE IF ~BarbershopExists(barbershopId)
               THEN /\ issueOut' = LinkError(404, "Barbershop not found", input)
                    /\ UNCHANGED tokens
               ELSE IF barberId # NULL /\ ~BarberInBarbershop(barberId, barbershopId)
               THEN /\ issueOut' = LinkError(404,
                                       "Barber not found in this barbershop", input)
                    /\ UNCHANGED tokens
               ELSE /\ tokens' = createToken(tokens,
                           [tokenHash |-> tokenHash, barbershopId |-> barbershopId,
                            barberId |-> barberId, customerPhone |-> customerPhone,
                            expiresAt |-> expiresAt, singleUse |-> TRUE])
                    /\ issueOut' = [status |-> 201, message |-> "created",
                                    bookingUrl |-> BookingUrl(plainToken),
                                    expiresAt |-> expiresAt, input |-> input]
    /\ UNCHANGED <<now, ticks, val, sessions, usedWrites, incDone, passed>>

\* --------------------------------------- ValidateBookingTokenUseCase
NoSession == [barbershopId |-> 0, barberId |-> NULL, customerPhone |-> 0,
              tokenId |-> 0]

\* the session data returned for a valid token
SessionOf(tokenData) ==
    [barbershopId |-> tokenData.barbershopId, barberId |-> tokenData.barberId,
     customerPhone |-> tokenData.customerPhone, tokenId |-> tokenData.id]

IdleVal ==
    [pc |-> "idle", plainToken |-> 0, tokenData |-> NullRow, attemptArg |-> NULL,
     checkedAt |-> NULL, usedArg |-> NULL, result |-> "none",
     afterSession |-> FALSE, writes |-> 0, session |-> NoSession,
     lookups |-> 0]

ErrorOf(reason) ==
    CASE reason = "expired" -> "TokenExpiredError"
      [] reason = "already_used" -> "TokenAlreadyUsedError"
      [] reason = "rate_limited" -> "TokenRateLimitedError"
      [] OTHER -> "TokenNotFoundError"

\* requests that have read the row and not yet incremented its counter
InFlight(id) ==
    Cardinality({q \in Validators :
        val[q].pc \in {"found", "incrementing"} /\ val[q].tokenData.id = id})

\* await findByHash; a missing row goes straight to validateTokenState(null)
ValidateFindToken(p, plainToken) ==
    /\ val[p].pc \in {"idle", "done"}
    /\ LET tokenData == findByHash(tokens, hashToken(plainToken))
       IN /\ tokenData.id # 0 =>
               tokenData.validationAttempts + InFlight(tokenData.id) < MaxAttempts
          /\ val' = [val EXCEPT ![p] =
              IF tokenData.id = 0
              THEN [IdleVal EXCEPT !.pc = "done", !.plainToken = plainToken,
                        !.lookups = 1,
                        !.result = ErrorOf(validateTokenState(tokenData, now))]
              ELSE [IdleVal EXCEPT !.pc = "found", !.plainToken = plainToken,
                        !.tokenData = tokenData, !.lookups = 1,
                        !.afterSession = (sessions[tokenData.id] > 0)]]
    /\ UNCHANGED <<now, ticks, tokens, issueOut, sessions, usedWrites, incDone, passed>>

ValidateFind(p) == \E plainToken \in Plaintexts : ValidateFindToken(p, plainToken)

\* the row was found: build the update, lastAttemptAt = new Date()
ValidateSendIncrement(p) ==
    /\ val[p].pc = "found"
    /\ val' = [val EXCEPT ![p].pc = "incrementing", ![p].attemptArg = now]
    /\ UNCHANGED <<now, ticks, tokens, issueOut, sessions, usedWrites, incDone, passed>>

\* storage applies incrementValidationAttempts
ValidateIncrement(p) ==
    /\ val[p].pc = "incrementing"
    /\ tokens' = incrementValidationAttempts(tokens, val[p].tokenData.id,
                     val[p].attemptArg)
    /\ incDone' = [incDone EXCEPT ![val[p].tokenData.id] = @ + 1]
    /\ val' = [val EXCEPT ![p].pc = "incremented", ![p].writes = @ + 1]
    /\ UNCHANGED <<now, ticks, issueOut, sessions, usedWrites, passed>>

\* validateTokenState on the row as read by findByHash, then the switch
ValidateCheck(p) ==
    /\ val[p].pc = "incremented"
    /\ LET validation == validateTokenState(val[p].tokenData, now)
       IN val' = [val EXCEPT ![p] =
            IF validation # "valid"
            THEN [@ EXCEPT !.pc = "done", !.checkedAt = now,
                           !.result = ErrorOf(validation)]
            ELSE IF val[p].tokenData.singleUse
            THEN [@ EXCEPT !.pc = "marking", !.checkedAt = now, !.usedArg = now]
            ELSE [@ EXCEPT !.pc = "done", !.checkedAt = now, !.result = "session",
                           !.session = SessionOf(val[p].tokenData)]]
    /\ sessions' = IF val'[p].result = "session"
                   THEN [sessions EXCEPT ![val[p].tokenData.id] = @ + 1]
                   ELSE sessions
    /\ passed' = IF validateTokenState(val[p].tokenData, now) # "rate_limited"
                 THEN [passed EXCEPT ![val[p].tokenData.id] = @ + 1]
                 ELSE passed
    /\ UNCHANGED <<now, ticks, tokens, issueOut, usedWrites, incDone>>

\* storage applies markAsUsed, then the session data is returned
ValidateMarkAsUsed(p) ==
    /\ val[p].pc = "marking"
    /\ tokens' = markAsUsed(tokens, val[p].tokenData.id, val[p].usedArg)
    /\ usedWrites' = [usedWrites EXCEPT ![val[p].tokenData.id] = @ + 1]
    /\ sessions' = [sessions EXCEPT ![val[p].tokenData.id] = @ + 1]
    /\ val' = [val EXCEPT ![p].pc = "done", ![p].result = "session",
                          ![p].writes = @ + 1,
                          ![p].session = SessionOf(val[p].tokenData)]
    /\ UNCHANGED <<now, ticks, issueOut, incDone, passed>>

\* the worker dies after the storage applied the increment and before the
\* code after the await runs: no state check, no markAsUsed, no answer
Crash(p) ==
    /\ val[p].pc = "incremented"
    /\ val' = [val EXCEPT ![p] = [IdleVal EXCEPT !.pc = "done",
                                                 !.result = "crashed",
                                                 !.writes = val[p].writes]]
    /\ crashed' = [crashed EXCEPT ![val[p].tokenData.id] =
            @ \/ (/\ tokens[val[p].tokenData.id].usedAt = NULL
                  /\ now <= tokens[val[p].tokenData.id].expiresAt)]
    /\ UNCHANGED <<now, ticks, tokens, issueOut, sessions, usedWrites, incDone, passed>>

\* validateBookingTokenController: the response for each outcome
ValidateResponse(result) ==
    CASE result = "session" -> [status |-> 200, code |-> "OK"]
      [] result = "TokenExpiredError" -> [status |-> 410, code |-> "TOKEN_EXPIRED"]
      [] result = "TokenAlreadyUsedError" -> [status |-> 410, code |-> "TOKEN_USED"]
      [] result = "TokenRateLimitedError" -> [status |-> 429, code |-> "RATE_LIMITED"]
      [] result = "TokenNotFoundError" -> [status |-> 404, code |-> "INVALID_TOKEN"]
      [] OTHER -> [status |-> 0, code |-> "NONE"]

\* ------------------------------ validateBookingTokenController
\* a path token shorter than the schema's minimum; plaintexts are 43 characters
ShortToken == 0
TokenMinLength == 32

TokenLength_AllLong(token) == 43

TokenLength(token) == IF token = ShortToken THEN 5 ELSE 43

\* payload of the session JWT carried by the cookie
NoCookie == [sub |-> 0, role |-> "none", barbershopId |-> 0, barberId |-> NULL]

\* token is the path parameter; result, lookups and writes are what the use
\* case did for this request, kept when its locals are gone
IdleRsp ==
    [pc |-> "idle", token |-> NULL, status |-> 0, code |-> "none",
     cookie |-> NoCookie, result |-> "none", lookups |-> 0, writes |-> 0]

Reply(request, call, status, code, cookie) ==
    [request EXCEPT !.pc = "sent", !.status = status, !.code = code,
                    !.cookie = cookie, !.result = call.result,
                    !.lookups = call.lookups, !.writes = call.writes]

SessionCookie(customerId, session) ==
    [sub |-> customerId, role |-> "CLIENT", barbershopId |-> session.barbershopId,
     barberId |-> session.barberId]

TokenInit ==
    /\ now = 0
    /\ ticks = 0
    /\ tokens = <<>>
    /\ issueOut = NoIssue
    /\ val = [p \in Validators |-> IdleVal]
    /\ sessions = [t \in TokenIds |-> 0]
    /\ usedWrites = [t \in TokenIds |-> 0]
    /\ incDone = [t \in TokenIds |-> 0]
    /\ passed = [t \in TokenIds |-> 0]
    /\ crashed = [t \in TokenIds |-> FALSE]
    /\ rsp = [p \in Validators |-> IdleRsp]

\* ======================================================= availability
VARIABLES
    avIn,         \* GetAvailabilityInput: barberId and date (an instant)
    avNow,        \* the clock read at the start of execute
    avOut,        \* the returned sequence of slots
    avQueried,    \* calls of findAllOnDay
    avSeen,       \* rows in the Appointment table when findAllOnDay ran
    avPc

availVars == <<avIn, avNow, avOut, avQueried, avSeen, avPc>>

\* ======================================================== appointments
VARIABLES
    appointments, \* Appointment table: sequence of rows, id = index
    customers,    \* Customer table: sequence of rows, id = index
    bk,           \* per book request: position and local variables
    cn            \* per cancel request: position and local variables

bookVars == <<appointments, customers, bk, cn>>

Bookers == 1..NumBookers
Cancelers == 1..NumCancelers
Barbers == {1, 2}
\* 09:00 and 09:30 of one day, milliseconds from local midnight
StartTimes == {9 * 60 * 60 * 1000, 9 * 60 * 60 * 1000 + 30 * 60 * 1000}
\* durationMin of the services on offer
Durations == {30}
BookPhones == {1, 2}

\* ------------------------------------------ PrismaAppointmentRepository
isSlotAvailable(rows, barberId, startTime) ==
    ~ \E i \in 1..Len(rows) :
          /\ rows[i].barberId = barberId
          /\ rows[i].startTime = startTime
          /\ rows[i].status # "CANCELED"

BarberStartTaken_NoIndex(rows, barberId, startTime) == FALSE

\* unique index Appointment_barberId_startTime_key: every row counts,
\* whatever its status
BarberStartTaken(rows, barberId, startTime) ==
    \E i \in 1..Len(rows) :
        rows[i].barberId = barberId /\ rows[i].startTime = startTime

createAppointment(rows, data) ==
    Append(rows,
        [id |-> Len(rows) + 1, barberId |-> data.barberId,
         serviceId |-> data.serviceId, customerId |-> data.customerId,
         barbershopId |-> data.barbershopId, startTime |-> data.startTime,
         endTime |-> data.endTime, status |-> "SCHEDULED"])

findCustomerByPhone(rows, phone) ==
    IF \E i \in 1..Len(rows) : rows[i].phone = phone
    THEN (CHOOSE i \in 1..Len(rows) : rows[i].phone = phone)
    ELSE 0

\* unique index Customer_phone_key
PhoneTaken(rows, phone) == \E i \in 1..Len(rows) : rows[i].phone = phone

createCustomer(rows, phone) == Append(rows, [id |-> Len(rows) + 1, phone |-> phone])

findByIdAndBarbershop(rows, id, barbershopId) ==
    IF id \in 1..Len(rows) /\ rows[id].barbershopId = barbershopId THEN id ELSE 0

updateStatus(rows, id, status) == [rows EXCEPT ![id].status = status]

\* --------------------------------------------- CreateAppointmentUseCase
IdleBook ==
    [pc |-> "idle", barberId |-> 0, serviceId |-> 0, barbershopId |-> 0,
     customerPhone |-> 0, startTime |-> 0, durationMin |-> 0,
     isAvailable |-> FALSE, customerId |-> 0, result |-> "none",
     appointmentId |-> 0, rival |-> 0, offered |-> FALSE]

\* a finished request keeps what it was asked and what it answered
Finished(b, result, appointmentId) ==
    [IdleBook EXCEPT !.pc = "done", !.barberId = b.barberId,
        !.startTime = b.startTime, !.customerPhone = b.customerPhone,
        !.isAvailable = b.isAvailable, !.customerId = b.customerId,
        !.result = result, !.appointmentId = appointmentId, !.rival = b.rival,
        !.offered = b.offered]

BookInFlight(p) == bk[p].pc \notin {"idle", "done"}
CancelInFlight(c) == cn[c].pc \notin {"idle", "done"}

\* requests that found the same slot free and have not inserted yet
Rivals(p, barberId, startTime) ==
    {q \in Bookers \ {p} :
        /\ bk[q].pc \in {"findCustomer", "createCustomer", "create"}
        /\ bk[q].barberId = barberId
        /\ bk[q].startTime = startTime}

\* the last availability answer was for this barber and lists startTime, and
\* no appointment for (barberId, startTime) was created since that answer
WasOffered(barberId, startTime) ==
    /\ avPc = "done"
    /\ avIn.barberId = barberId
    /\ \E i \in 1..Len(avOut) : avOut[i].startTime = startTime
    /\ ~ \E j \in (avSeen + 1)..Len(appointments) :
            /\ appointments[j].barberId = barberId
            /\ appointments[j].startTime = startTime

\* execute(input) up to await isSlotAvailable; an occupied slot throws
\* SlotOccupiedError
BookCall(p, barberId, serviceId, barbershopId, customerPhone, startTime, durationMin) ==
    /\ bk[p].pc \in {"idle", "done"}
    /\ Len(appointments) < MaxAppointments
    /\ LET isAvailable == isSlotAvailable(appointments, barberId, startTime)
           input == [IdleBook EXCEPT !.barberId = barberId,
                         !.serviceId = serviceId, !.barbershopId = barbershopId,
                         !.customerPhone = customerPhone,
                         !.startTime = startTime, !.durationMin = durationMin,
                         !.isAvailable = isAvailable,
                         !.offered = WasOffered(barberId, startTime)]
           rivals == IF isAvailable THEN Rivals(p, barberId, startTime) ELSE {}
       IN bk' = [q \in Bookers |->
              IF q = p
              THEN IF isAvailable
                   THEN [input EXCEPT !.pc = "findCustomer",
                             !.rival = IF rivals = {} THEN 0
                                       ELSE CHOOSE r \in rivals : TRUE]
                   ELSE Finished(input, "SlotOccupiedError", 0)
              ELSE IF q \in rivals /\ bk[q].rival = 0
                   THEN [bk[q] EXCEPT !.rival = p]
                   ELSE bk[q]]

\* a call of the use case with any input
BookCheck(p) ==
    /\ \E barberId \in Barbers, startTime \in StartTimes,
          durationMin \in Durations, customerPhone \in BookPhones :
         BookCall(p, barberId, durationMin, 1, customerPhone, startTime,
                  durationMin)
    /\ UNCHANGED <<appointments, customers, cn>>

\* await findCustomerByPhone
BookFindCustomer(p) ==
    /\ bk[p].pc = "findCustomer"
    /\ LET customer == findCustomerByPhone(customers, bk[p].customerPhone)
       IN bk' = [bk EXCEPT ![p] =
            IF customer # 0
            THEN [@ EXCEPT !.pc = "create", !.customerId = customer]
            ELSE [@ EXCEPT !.pc = "createCustomer"]]
    /\ UNCHANGED <<appointments, customers, cn>>

\* await createCustomer; the unique phone index rejects a duplicate (P2002)
BookCreateCustomer(p) ==
    /\ bk[p].pc = "createCustomer"
    /\ IF PhoneTaken(customers, bk[p].customerPhone)
       THEN /\ bk' = [bk EXCEPT ![p] = Finished(@, "P2002", 0)]
            /\ UNCHANGED customers
       ELSE /\ customers' = createCustomer(customers, bk[p].customerPhone)
            /\ bk' = [bk EXCEPT ![p].pc = "create",
                                ![p].customerId = Len(customers) + 1]
    /\ UNCHANGED <<appointments, cn>>

\* endTime = startTime + durationMin, then await create; the unique
\* (barberId, startTime) index rejects a duplicate (P2002)
BookCreate(p) ==
    /\ bk[p].pc = "create"
    /\ IF BarberStartTaken(appointments, bk[p].barberId, bk[p].startTime)
       THEN /\ bk' = [bk EXCEPT ![p] = Finished(@, "P2002", 0)]
            /\ UNCHANGED appointments
       ELSE /\ appointments' = createAppointment(appointments,
                    [barberId |-> bk[p].barberId, serviceId |-> bk[p].serviceId,
                     customerId |-> bk[p].customerId,
                     barbershopId |-> bk[p].barbershopId,
                     startTime |-> bk[p].startTime,
                     endTime |-> bk[p].startTime + bk[p].durationMin * 60 * 1000])
            /\ bk' = [bk EXCEPT ![p] =
                        Finished(@, "Appointment", Len(appointments) + 1)]
    /\ UNCHANGED <<customers, cn>>

\* createAppointmentController's catch and the global errorHandler
BookResponse(result) ==
    CASE result = "Appointment" -> [status |-> 201, message |-> "created"]
      [] result = "SlotOccupiedError" ->
            [status |-> 409, message |-> "Appointment already exists"]
      [] result = "P2002" ->
            [status |-> 409, message |-> "A record with this information already exists"]
      [] OTHER -> [status |-> 0, message |-> "none"]

\* --------------------------------------------- CancelAppointmentUseCase
IdleCancel == [pc |-> "idle", appointmentId |-> 0, result |-> "none"]

\* await findByIdAndBarbershop, then the status checks
CancelFind(c) ==
    /\ cn[c].pc \in {"idle", "done"}
    /\ \E appointmentId \in 1..MaxAppointments :
         LET appointment == findByIdAndBarbershop(appointments, appointmentId, 1)
         IN cn' = [cn EXCEPT ![c] =
                IF appointment = 0
                THEN [pc |-> "done", appointmentId |-> appointmentId,
                      result |-> "AppointmentNotFoundError"]
                ELSE IF appointments[appointment].status = "CANCELED"
                THEN [pc |-> "done", appointmentId |-> appointmentId,
                      result |-> "AppointmentAlreadyCanceledError"]
                ELSE IF appointments[appointment].status = "COMPLETED"
                THEN [pc |-> "done", appointmentId |-> appointmentId,
                      result |-> "AppointmentAlreadyCompletedError"]
                ELSE [pc |-> "update", appointmentId |-> appointmentId,
                      result |-> "none"]]
    /\ UNCHANGED <<appointments, customers, bk>>

\* await updateStatus(CANCELED), then the row is read back and returned
CancelUpdate(c) ==
    /\ cn[c].pc = "update"
    /\ appointments' = updateStatus(appointments, cn[c].appointmentId, "CANCELED")
    /\ cn' = [cn EXCEPT ![c].pc = "done", ![c].result = "canceled"]
    /\ UNCHANGED <<customers, bk>>

BookInit ==
    /\ appointments = <<>>
    /\ customers = <<>>
    /\ bk = [p \in Bookers |-> IdleBook]
    /\ cn = [c \in Cancelers |-> IdleCancel]

\* ------------------------------ validateBookingTokenController, the handler
\* paramsSchema.safeParse, then the call of the use case up to findByHash
HttpReceive(p) ==
    /\ rsp[p].pc \in {"idle", "sent"}
    /\ \E token \in Plaintexts \cup {ShortToken} :
         IF TokenLength(token) < TokenMinLength
         THEN /\ val[p].pc \in {"idle", "done"}
              /\ val' = [val EXCEPT ![p] = IdleVal]
              /\ rsp' = [rsp EXCEPT ![p] =
                     Reply([IdleRsp EXCEPT !.token = token], IdleVal, 400, "none",
                           NoCookie)]
              /\ UNCHANGED <<now, ticks, tokens, issueOut, sessions, usedWrites,
                             incDone, passed>>
         ELSE /\ ValidateFindToken(p, token)
              /\ rsp' = [rsp EXCEPT ![p] =
                     [IdleRsp EXCEPT !.pc = "pending", !.token = token]]
    /\ UNCHANGED customers

\* the catch block: one reply per token error
HttpReplyError(p) ==
    /\ rsp[p].pc = "pending" /\ val[p].pc = "done"
    /\ val[p].result \notin {"session", "crashed"}
    /\ rsp' = [rsp EXCEPT ![p] =
          Reply(@, val[p], ValidateResponse(val[p].result).status,
                ValidateResponse(val[p].result).code, NoCookie)]
    /\ val' = [val EXCEPT ![p] = IdleVal]
    /\ UNCHANGED <<now, ticks, tokens, issueOut, sessions, usedWrites,
                   incDone, passed, customers>>

\* await prisma.customer.findUnique({ phone }); a found customer is answered
HttpFindCustomer(p) ==
    /\ rsp[p].pc = "pending" /\ val[p].pc = "done" /\ val[p].result = "session"
    /\ LET customerId == findCustomerByPhone(customers, val[p].session.customerPhone)
       IN IF customerId # 0
          THEN /\ rsp' = [rsp EXCEPT ![p] =
                      Reply(@, val[p], 200, "OK",
                            SessionCookie(customerId, val[p].session))]
               /\ val' = [val EXCEPT ![p] = IdleVal]
          ELSE /\ rsp' = [rsp EXCEPT ![p].pc = "creating"]
               /\ UNCHANGED val
    /\ UNCHANGED <<now, ticks, tokens, issueOut, sessions, usedWrites,
                   incDone, passed, customers>>

\* await prisma.customer.create; a duplicate phone is rejected by the unique
\* index and the global error handler answers 409
HttpCreateCustomer(p) ==
    /\ rsp[p].pc = "creating"
    /\ IF PhoneTaken(customers, val[p].session.customerPhone)
       THEN /\ rsp' = [rsp EXCEPT ![p] = Reply(@, val[p], 409, "P2002", NoCookie)]
            /\ UNCHANGED customers
       ELSE /\ customers' = createCustomer(customers, val[p].session.customerPhone)
            /\ rsp' = [rsp EXCEPT ![p] =
                  Reply(@, val[p], 200, "OK",
                        SessionCookie(Len(customers) + 1, val[p].session))]
    /\ val' = [val EXCEPT ![p] = IdleVal]
    /\ UNCHANGED <<now, ticks, tokens, issueOut, sessions, usedWrites, incDone, passed>>

\* =================================================== state evaluator runs
VARIABLES
    evIn,         \* the tokenData argument (NullRow for null)
    evNow,        \* the clock during the call
    evOut         \* the reason returned ("valid" for { valid: true })

evalVars == <<evIn, evNow, evOut>>

MaxEvalAttempts == 6
EvalTimes == {0, 1, RATE_LIMIT_WINDOW_MS, RATE_LIMIT_WINDOW_MS + 1,
              2 * RATE_LIMIT_WINDOW_MS}

EvalInputs ==
    {NullRow} \cup
    { [NullRow EXCEPT !.id = 1, !.expiresAt = e, !.usedAt = u, !.singleUse = s,
                      !.validationAttempts = a, !.lastAttemptAt = l] :
        e \in EvalTimes, u \in EvalTimes \cup {NULL}, s \in BOOLEAN,
        a \in 0..MaxEvalAttempts, l \in EvalTimes \cup {NULL} }

Evaluate ==
    /\ evOut = "none"
    /\ evOut' = validateTokenState(evIn, evNow)
    /\ UNCHANGED <<evIn, evNow>>

\* ---------------------------------------------- GetAvailabilityUseCase
BUSINESS_START_HOUR == 9
BUSINESS_END_HOUR == 18
SLOT_DURATION_MINUTES == 30

\* instants are milliseconds of local time, in a zone without clock changes
MINUTE_MS == 60 * 1000
HOUR_MS == 60 * MINUTE_MS
DAY_MS == 24 * HOUR_MS

\* setHours(0, 0, 0, 0) and setHours(23, 59, 59, 999)
StartOfDay(t) == t - (t % DAY_MS)
EndOfDay(t) == StartOfDay(t) + 23 * HOUR_MS + 59 * MINUTE_MS + 59 * 1000 + 999

isDateInPast_Never(date, t) == FALSE

isDateInPast(date, t) == StartOfDay(date) < StartOfDay(t)

SlotsPerHour == 60 \div SLOT_DURATION_MINUTES
SlotCount == (BUSINESS_END_HOUR - BUSINESS_START_HOUR) * SlotsPerHour

generateDaySlots_HourLong(date) ==
    [i \in 1..SlotCount |->
        LET hour == BUSINESS_START_HOUR + ((i - 1) \div SlotsPerHour)
            minute == ((i - 1) % SlotsPerHour) * SLOT_DURATION_MINUTES
            startTime == StartOfDay(date) + hour * HOUR_MS + minute * MINUTE_MS
        IN [startTime |-> startTime, endTime |-> startTime + HOUR_MS]]

\* the two loops: hour 9..17, minute 0 and 30, in that order
generateDaySlots(date) ==
    [i \in 1..SlotCount |->
        LET hour == BUSINESS_START_HOUR + ((i - 1) \div SlotsPerHour)
            minute == ((i - 1) % SlotsPerHour) * SLOT_DURATION_MINUTES
            startTime == StartOfDay(date) + hour * HOUR_MS + minute * MINUTE_MS
        IN [startTime |-> startTime,
            endTime |-> startTime + SLOT_DURATION_MINUTES * MINUTE_MS]]

\* findMany: the barber's rows of that day that are not CANCELED
findAllOnDay(rows, barberId, date) ==
    { [startTime |-> rows[i].startTime, endTime |-> rows[i].endTime] :
        i \in { j \in 1..Len(rows) :
                 /\ rows[j].barberId = barberId
                 /\ rows[j].startTime >= StartOfDay(date)
                 /\ rows[j].startTime <= EndOfDay(date)
                 /\ rows[j].status # "CANCELED" } }

filterSlots_KeepNow(allSlots, bookedAppointments, t) ==
    LET Keep(slot) ==
          /\ ~(slot.startTime < t)
          /\ ~(\E booked \in bookedAppointments :
                   booked.startTime = slot.startTime)
    IN SelectSeq(allSlots, Keep)

\* allSlots.filter: drop the slots not after now and the booked ones
filterSlots(allSlots, bookedAppointments, t) ==
    LET Keep(slot) ==
          /\ ~(slot.startTime <= t)
          /\ ~(\E booked \in bookedAppointments :
                   booked.startTime = slot.startTime)
    IN SelectSeq(allSlots, Keep)

\* GetAvailabilityUseCase.execute
GetAvailability ==
    /\ avPc = "idle"
    /\ avPc' = "done"
    /\ IF isDateInPast(avIn.date, avNow)
       THEN /\ avOut' = <<>>
            /\ UNCHANGED <<avQueried, avSeen>>
       ELSE /\ avQueried' = avQueried + 1
            /\ avSeen' = Len(appointments)
            /\ avOut' = filterSlots(generateDaySlots(avIn.date),
                            findAllOnDay(appointments, avIn.barberId, avIn.date),
                            avNow)
    /\ UNCHANGED <<avIn, avNow>>

\* ============================================================== queue
VARIABLES
    queueItems,   \* rows of QueueItem, in insertion order; id = index
    jn,           \* per join request: position in JoinQueueUseCase.execute
    cl,           \* per call request: position in CallCustomerUseCase.execute
    lv            \* per leave request: position in LeaveQueueUseCase.execute

queueVars == <<queueItems, jn, cl, lv>>

NumJoiners == 2
NumCallers == 1
NumLeavers == 1
MaxQueueItems == 2

ESTIMATED_MINUTES_PER_CUSTOMER == 15

Joiners == 1..NumJoiners
Callers == 1..NumCallers
Leavers == 1..NumLeavers
QueueItemIds == 1..MaxQueueItems
\* barbershop 4 has the queue switched off, barbershop 3 has no row
QueueEnabledShops == {1, 2}
JoinShops == {1, 2, 3, 4}
\* customer 1 has a row, customer 2 has none
QueueCustomerTable == {1}
JoinCustomers == {1, 2}

NoItem == [id |-> 0, customerId |-> 0, barbershopId |-> 0, status |-> "none",
           joinedAt |-> 0]

\* prisma.queueItem.findFirst({ customerId, barbershopId, status: WAITING })
findActiveQueueItem(rows, customerId, barbershopId) ==
    LET hits == { i \in 1..Len(rows) :
                    /\ rows[i].customerId = customerId
                    /\ rows[i].barbershopId = barbershopId
                    /\ rows[i].status = "WAITING" }
    IN IF hits = {} THEN NoItem ELSE rows[CHOOSE i \in hits : TRUE]

findQueueItemById(rows, id) ==
    IF id \in 1..Len(rows) THEN rows[id] ELSE NoItem

countWaitingAhead(rows, barbershopId, joinedAt) ==
    Cardinality({ i \in 1..Len(rows) :
                    /\ rows[i].barbershopId = barbershopId
                    /\ rows[i].status = "WAITING"
                    /\ rows[i].joinedAt < joinedAt })

\* joinedAt defaults to the insertion instant: later rows have later values
createQueueItem(rows, data) ==
    Append(rows, [id |-> Len(rows) + 1, customerId |-> data.customerId,
                  barbershopId |-> data.barbershopId, status |-> "WAITING",
                  joinedAt |-> Len(rows) + 1])

updateQueueItemStatus(rows, id, status) == [rows EXCEPT ![id].status = status]

\* ------------------------------------------------- JoinQueueUseCase
IdleJoin ==
    [pc |-> "idle", customerId |-> 0, barbershopId |-> 0, itemId |-> 0,
     result |-> "none", position |-> 0, estimatedWaitMinutes |-> 0]

\* a finished request keeps its outcome only
JoinDone(result, aheadCount) ==
    [IdleJoin EXCEPT !.pc = "done", !.result = result,
                     !.position = IF result = "QueueItem" THEN aheadCount + 1 ELSE 0,
                     !.estimatedWaitMinutes =
                         aheadCount * ESTIMATED_MINUTES_PER_CUSTOMER]

JoinInFlight(q) == jn[q].pc \in {"checking", "creating"}

\* findBarbershopById and findCustomerById: both tables are fixed here, so
\* the two lookups are taken in one step
JoinStart(p) ==
    /\ jn[p].pc \in {"idle", "done"}
    /\ Len(queueItems) + Cardinality({q \in Joiners : JoinInFlight(q)})
          < MaxQueueItems
    /\ \E customerId \in JoinCustomers, barbershopId \in JoinShops :
         jn' = [jn EXCEPT ![p] =
            IF barbershopId \notin BarbershopTable
            THEN JoinDone("BarbershopNotFoundError", 0)
            ELSE IF barbershopId \notin QueueEnabledShops
            THEN JoinDone("QueueDisabledError", 0)
            ELSE IF customerId \notin QueueCustomerTable
            THEN JoinDone("CustomerNotFoundError", 0)
            ELSE [IdleJoin EXCEPT !.pc = "checking", !.customerId = customerId,
                                  !.barbershopId = barbershopId]]
    /\ UNCHANGED <<queueItems, cl, lv>>

\* await findActiveQueueItem
JoinFindActive(p) ==
    /\ jn[p].pc = "checking"
    /\ jn' = [jn EXCEPT ![p] =
          IF findActiveQueueItem(queueItems, jn[p].customerId,
                                 jn[p].barbershopId).id # 0
          THEN JoinDone("AlreadyInQueueError", 0)
          ELSE [@ EXCEPT !.pc = "creating"]]
    /\ UNCHANGED <<queueItems, cl, lv>>

\* await createQueueItem
JoinCreate(p) ==
    /\ jn[p].pc = "creating"
    /\ queueItems' = createQueueItem(queueItems,
          [customerId |-> jn[p].customerId, barbershopId |-> jn[p].barbershopId])
    /\ jn' = [jn EXCEPT ![p].pc = "created", ![p].itemId = Len(queueItems) + 1]
    /\ UNCHANGED <<cl, lv>>

\* await countWaitingAhead, then the item with its position is returned
JoinCount(p) ==
    /\ jn[p].pc = "created"
    /\ LET aheadCount == countWaitingAhead(queueItems, jn[p].barbershopId,
                              queueItems[jn[p].itemId].joinedAt)
       IN jn' = [jn EXCEPT ![p] = JoinDone("QueueItem", aheadCount)]
    /\ UNCHANGED <<queueItems, cl, lv>>

\* ------------------------------------------------ CallCustomerUseCase
IdleCall ==
    [pc |-> "idle", queueItemId |-> 0, status |-> "none", result |-> "none",
     writes |-> 0, wroteFrom |-> "none"]

\* await findQueueItemById, then the two status tests
CallFind(c) ==
    /\ cl[c].pc \in {"idle", "done"}
    /\ \E queueItemId \in QueueItemIds :
         LET queueItem == findQueueItemById(queueItems, queueItemId)
         IN cl' = [cl EXCEPT ![c] =
              [IdleCall EXCEPT
                 !.queueItemId = IF queueItem.status = "WAITING"
                                 THEN queueItemId ELSE 0,
                 !.status = queueItem.status,
                 !.pc = IF queueItem.status = "WAITING" THEN "updating" ELSE "done",
                 !.result = IF queueItem.id = 0 THEN "QueueItemNotFoundError"
                            ELSE IF queueItem.status \notin {"WAITING", "NOTIFIED"}
                            THEN "InvalidQueueStatusError"
                            ELSE IF queueItem.status = "NOTIFIED" THEN "NOTIFIED"
                            ELSE "none"]]
    /\ UNCHANGED <<queueItems, jn, lv>>

\* await updateQueueItemStatus(queueItemId, NOTIFIED)
CallUpdate(c) ==
    /\ cl[c].pc = "updating"
    /\ queueItems' = updateQueueItemStatus(queueItems, cl[c].queueItemId, "NOTIFIED")
    /\ cl' = [cl EXCEPT ![c].pc = "done", ![c].result = "NOTIFIED",
                        ![c].writes = 1, ![c].queueItemId = 0,
                        ![c].wroteFrom = queueItems[cl[c].queueItemId].status]
    /\ UNCHANGED <<jn, lv>>

\* ------------------------------------------------- LeaveQueueUseCase
IdleLeave == [pc |-> "idle", queueItemId |-> 0, result |-> "none"]

LeaveFind(l) ==
    /\ lv[l].pc \in {"idle", "done"}
    /\ \E queueItemId \in QueueItemIds :
         lv' = [lv EXCEPT ![l] =
            IF findQueueItemById(queueItems, queueItemId).id = 0
            THEN [IdleLeave EXCEPT !.pc = "done",
                                   !.result = "QueueItemNotFoundError"]
            ELSE [IdleLeave EXCEPT !.pc = "updating",
                                   !.queueItemId = queueItemId]]
    /\ UNCHANGED <<queueItems, jn, cl>>

\* await updateQueueItemStatus(queueItemId, CANCELED)
LeaveUpdate(l) ==
    /\ lv[l].pc = "updating"
    /\ queueItems' = updateQueueItemStatus(queueItems, lv[l].queueItemId, "CANCELED")
    /\ lv' = [lv EXCEPT ![l] = [IdleLeave EXCEPT !.pc = "done",
                                                 !.result = "CANCELED"]]
    /\ UNCHANGED <<jn, cl>>

QueueIdle ==
    /\ queueItems = <<>>
    /\ jn = [p \in Joiners |-> IdleJoin]
    /\ cl = [c \in Callers |-> IdleCall]
    /\ lv = [l \in Leavers |-> IdleLeave]

\* ============================================== appointment status updates
VARIABLES
    us            \* per status request: position in UpdateAppointmentStatusUseCase.execute

statusVars == <<us>>

NumUpdaters == 2
Updaters == 1..NumUpdaters

AppointmentStatuses == {"SCHEDULED", "COMPLETED", "CANCELED", "NO_SHOW"}

VALID_TRANSITIONS(status) ==
    CASE status = "SCHEDULED" -> {"COMPLETED", "CANCELED", "NO_SHOW"}
      [] status = "COMPLETED" -> {}
      [] status = "CANCELED" -> {}
      [] status = "NO_SHOW" -> {}

\* over: the stored status that the request's update replaced
IdleUpdate ==
    [pc |-> "idle", appointmentId |-> 0, barbershopId |-> 0, status |-> "none",
     from |-> "none", over |-> "none", result |-> "none"]

\* await findByIdAndBarbershop, then the transition check on the row read
UpdateFind(u) ==
    /\ us[u].pc \in {"idle", "done"}
    /\ \E appointmentId \in 1..(MaxAppointments + 1), barbershopId \in {1, 2},
          status \in AppointmentStatuses :
         LET appointment ==
                 findByIdAndBarbershop(appointments, appointmentId, barbershopId)
             input == [IdleUpdate EXCEPT !.appointmentId = appointmentId,
                           !.barbershopId = barbershopId, !.status = status]
         IN us' = [us EXCEPT ![u] =
                IF appointment = 0
                THEN [input EXCEPT !.pc = "done",
                          !.result = "AppointmentNotFoundError"]
                ELSE IF status \notin VALID_TRANSITIONS(appointments[appointment].status)
                THEN [input EXCEPT !.pc = "done",
                          !.from = appointments[appointment].status,
                          !.result = "InvalidStatusTransitionError"]
                ELSE [input EXCEPT !.pc = "update",
                          !.from = appointments[appointment].status]]
    /\ UNCHANGED appointments

\* await updateStatus, then the row is read back and returned
UpdateWrite(u) ==
    /\ us[u].pc = "update"
    /\ appointments' = updateStatus(appointments, us[u].appointmentId, us[u].status)
    /\ us' = [us EXCEPT ![u].pc = "done", ![u].result = "Appointment",
                        ![u].over = appointments[us[u].appointmentId].status]

StatusIdle == us = [u \in Updaters |-> IdleUpdate]

\* ======================================================= POST /appointments
VARIABLES
    po            \* per request: createAppointmentController's locals and reply

postVars == <<po>>

\* rows of the Service table (no modelled handler writes them)
ServiceTable ==
    {[id |-> 1, barbershopId |-> 1, durationMin |-> 30],
     [id |-> 2, barbershopId |-> 1, durationMin |-> 60],
     [id |-> 3, barbershopId |-> 2, durationMin |-> 30]}
\* 09:00, 09:10 and 09:30 of day 0
BodyTimes == {9 * HOUR_MS, 9 * HOUR_MS + 10 * MINUTE_MS,
              9 * HOUR_MS + 30 * MINUTE_MS}
\* the phone of the booking link; phones and row ids are strings of
\* different shapes, so no phone equals an id
SessionPhone == 7

\* the credentials that validateBookingTokenController issued to the
\* customer of SessionPhone (Customer row 1) for barbershop 1, with and
\* without a pinned barber
PostCookies ==
    { SessionCookie(1, [barbershopId |-> 1, barberId |-> barberId,
                        customerPhone |-> SessionPhone, tokenId |-> 1]) :
        barberId \in {NULL, 1} }

findService(serviceId) ==
    IF \E service \in ServiceTable : service.id = serviceId
    THEN CHOOSE service \in ServiceTable : service.id = serviceId
    ELSE [id |-> 0, barbershopId |-> 0, durationMin |-> 0]

BarberExists(barberId) == \E barber \in BarberTable : barber.id = barberId

IdlePost ==
    [pc |-> "idle", user |-> NoCookie,
     body |-> [barberId |-> 0, serviceId |-> 0, startTime |-> 0], calledAt |-> 0,
     status |-> 0, message |-> "none", appointmentId |-> 0]

\* jwtVerify, bodySchema.safeParse of a well-formed body, the lookups of the
\* service and the barber (service 4 and barber 3 have no row), then the call
\* of the use case up to isSlotAvailable; customerPhone is user.sub
PostReceive(p) ==
    /\ po[p].pc \in {"idle", "sent"}
    /\ \E user \in PostCookies, barberId \in {1, 2, 3},
          serviceId \in {1, 2, 3, 4}, startTime \in BodyTimes :
         LET request == [IdlePost EXCEPT !.user = user, !.calledAt = now,
                             !.body = [barberId |-> barberId,
                                       serviceId |-> serviceId,
                                       startTime |-> startTime]]
             service == findService(serviceId)
         IN IF service.id = 0
            THEN /\ po' = [po EXCEPT ![p] =
                       [request EXCEPT !.pc = "sent", !.status = 404,
                                       !.message = "Service not found",
                                       !.body = IdlePost.body]]
                 /\ UNCHANGED bk
            ELSE IF ~ BarberExists(barberId)
            THEN /\ po' = [po EXCEPT ![p] =
                       [request EXCEPT !.pc = "sent", !.status = 404,
                                       !.message = "Barber not found",
                                       !.body = IdlePost.body]]
                 /\ UNCHANGED bk
            ELSE /\ BookCall(p, barberId, serviceId, user.barbershopId,
                             user.sub, startTime, service.durationMin)
                 /\ po' = [po EXCEPT ![p] = [request EXCEPT !.pc = "called"]]
    /\ UNCHANGED <<appointments, customers, cn>>

\* reply 201 with the appointment, 409 from the catch block or from the
\* global errorHandler; the body and the locals of the use case are gone
PostReply(p) ==
    /\ po[p].pc = "called" /\ bk[p].pc = "done"
    /\ po' = [po EXCEPT ![p].pc = "sent", ![p].body = IdlePost.body,
                        ![p].status = BookResponse(bk[p].result).status,
                        ![p].message = BookResponse(bk[p].result).message,
                        ![p].appointmentId = bk[p].appointmentId]
    /\ bk' = [bk EXCEPT ![p] = IdleBook]
    /\ UNCHANGED <<appointments, customers, cn>>

PostIdle == po = [p \in Bookers |-> IdlePost]

vars == <<tokenVars, bookVars, evalVars, availVars, queueVars, statusVars, postVars>>

AvailIdle ==
    /\ avIn = [barberId |-> 1, date |-> 0] /\ avNow = 0 /\ avOut = <<>>
    /\ avQueried = 0 /\ avSeen = 0 /\ avPc = "idle"

Init ==
    /\ TokenInit /\ BookInit /\ AvailIdle /\ QueueIdle /\ StatusIdle /\ PostIdle
    /\ evIn = NullRow /\ evNow = 0 /\ evOut = "none"

EvalInit ==
    /\ TokenInit /\ BookInit /\ AvailIdle /\ QueueIdle /\ StatusIdle /\ PostIdle
    /\ evIn \in EvalInputs /\ evNow \in EvalTimes /\ evOut = "none"

EvalNext == Evaluate /\ UNCHANGED <<tokenVars, bookVars, availVars, queueVars, statusVars, postVars>>

EvalSpec == EvalInit /\ [][EvalNext]_vars


Next ==
    \/ Tick /\ UNCHANGED <<bookVars, evalVars, availVars, queueVars, statusVars, postVars, crashed, rsp>>
    \/ Issue /\ UNCHANGED <<bookVars, evalVars, availVars, queueVars, statusVars, postVars, crashed, rsp>>
    \/ \E p \in Validators : ValidateFind(p) /\ UNCHANGED <<bookVars, evalVars, availVars, queueVars, statusVars, postVars, crashed, rsp>>
    \/ \E p \in Validators : ValidateSendIncrement(p) /\ UNCHANGED <<bookVars, evalVars, availVars, queueVars, statusVars, postVars, crashed, rsp>>
    \/ \E p \in Validators : ValidateIncrement(p) /\ UNCHANGED <<bookVars, evalVars, availVars, queueVars, statusVars, postVars, crashed, rsp>>
    \/ \E p \in Validators : ValidateCheck(p) /\ UNCHANGED <<bookVars, evalVars, availVars, queueVars, statusVars, postVars, crashed, rsp>>
    \/ \E p \in Validators : ValidateMarkAsUsed(p) /\ UNCHANGED <<bookVars, evalVars, availVars, queueVars, statusVars, postVars, crashed, rsp>>

Spec == Init /\ [][Next]_vars

\* the validator with workers that may die in the middle of a request, at
\* one instant of the clock
CrashNext ==
    \/ Issue /\ UNCHANGED <<bookVars, evalVars, availVars, queueVars, statusVars, postVars, crashed, rsp>>
    \/ \E p \in Validators : ValidateFind(p) /\ UNCHANGED <<bookVars, evalVars, availVars, queueVars, statusVars, postVars, crashed, rsp>>
    \/ \E p \in Validators : ValidateSendIncrement(p) /\ UNCHANGED <<bookVars, evalVars, availVars, queueVars, statusVars, postVars, crashed, rsp>>
    \/ \E p \in Validators : ValidateIncrement(p) /\ UNCHANGED <<bookVars, evalVars, availVars, queueVars, statusVars, postVars, crashed, rsp>>
    \/ \E p \in Validators : ValidateCheck(p) /\ UNCHANGED <<bookVars, evalVars, availVars, queueVars, statusVars, postVars, crashed, rsp>>
    \/ \E p \in Validators : ValidateMarkAsUsed(p) /\ UNCHANGED <<bookVars, evalVars, availVars, queueVars, statusVars, postVars, crashed, rsp>>
    \/ \E p \in Validators : Crash(p) /\ UNCHANGED <<bookVars, evalVars, availVars, queueVars, statusVars, postVars, rsp>>

CrashSpec == Init /\ [][CrashNext]_vars

\* GET /auth/booking/:token, requests running concurrently; the clock
\* advances between requests
HttpQuiet == \A q \in Validators : rsp[q].pc \in {"idle", "sent"}

HttpRest == <<appointments, bk, cn, evalVars, availVars, queueVars, statusVars, postVars, crashed>>

HttpNext ==
    \/ HttpQuiet /\ Tick /\ UNCHANGED <<HttpRest, customers, rsp>>
    \/ Issue /\ UNCHANGED <<HttpRest, customers, rsp>>
    \/ \E p \in Validators : HttpReceive(p) /\ UNCHANGED HttpRest
    \/ \E p \in Validators : ValidateSendIncrement(p) /\ UNCHANGED <<HttpRest, customers, rsp>>
    \/ \E p \in Validators : ValidateIncrement(p) /\ UNCHANGED <<HttpRest, customers, rsp>>
    \/ \E p \in Validators : ValidateCheck(p) /\ UNCHANGED <<HttpRest, customers, rsp>>
    \/ \E p \in Validators : ValidateMarkAsUsed(p) /\ UNCHANGED <<HttpRest, customers, rsp>>
    \/ \E p \in Validators : HttpReplyError(p) /\ UNCHANGED HttpRest
    \/ \E p \in Validators : HttpFindCustomer(p) /\ UNCHANGED HttpRest
    \/ \E p \in Validators : HttpCreateCustomer(p) /\ UNCHANGED HttpRest

HttpSpec == Init /\ [][HttpNext]_vars

\* validate calls made one after the other while the clock runs; a call may
\* die before its state check
NoneValidating == \A q \in Validators : val[q].pc \in {"idle", "done"}

WindowNext ==
    \/ Tick /\ UNCHANGED <<bookVars, evalVars, availVars, queueVars, statusVars, postVars, crashed, rsp>>
    \/ Issue /\ UNCHANGED <<bookVars, evalVars, availVars, queueVars, statusVars, postVars, crashed, rsp>>
    \/ \E p \in Validators :
          NoneValidating /\ ValidateFind(p) /\ UNCHANGED <<bookVars, evalVars, availVars, queueVars, statusVars, postVars, crashed, rsp>>
    \/ \E p \in Validators : ValidateSendIncrement(p) /\ UNCHANGED <<bookVars, evalVars, availVars, queueVars, statusVars, postVars, crashed, rsp>>
    \/ \E p \in Validators : ValidateIncrement(p) /\ UNCHANGED <<bookVars, evalVars, availVars, queueVars, statusVars, postVars, crashed, rsp>>
    \/ \E p \in Validators : ValidateCheck(p) /\ UNCHANGED <<bookVars, evalVars, availVars, queueVars, statusVars, postVars, crashed, rsp>>
    \/ \E p \in Validators : ValidateMarkAsUsed(p) /\ UNCHANGED <<bookVars, evalVars, availVars, queueVars, statusVars, postVars, crashed, rsp>>
    \/ \E p \in Validators : Crash(p) /\ UNCHANGED <<bookVars, evalVars, availVars, queueVars, statusVars, postVars, rsp>>

WindowSpec == Init /\ [][WindowNext]_vars

BookNext ==
    \/ \E p \in Bookers : BookCheck(p) /\ UNCHANGED <<tokenVars, evalVars, availVars, queueVars, statusVars, postVars>>
    \/ \E p \in Bookers : BookFindCustomer(p) /\ UNCHANGED <<tokenVars, evalVars, availVars, queueVars, statusVars, postVars>>
    \/ \E p \in Bookers : BookCreateCustomer(p) /\ UNCHANGED <<tokenVars, evalVars, availVars, queueVars, statusVars, postVars>>
    \/ \E p \in Bookers : BookCreate(p) /\ UNCHANGED <<tokenVars, evalVars, availVars, queueVars, statusVars, postVars>>
    \/ \E c \in Cancelers : CancelFind(c) /\ UNCHANGED <<tokenVars, evalVars, availVars, queueVars, statusVars, postVars>>
    \/ \E c \in Cancelers : CancelUpdate(c) /\ UNCHANGED <<tokenVars, evalVars, availVars, queueVars, statusVars, postVars>>

BookSpec == Init /\ [][BookNext]_vars

\* one request at a time: a request starts only when none is in flight
NoneInFlight ==
    /\ \A p \in Bookers : ~ BookInFlight(p)
    /\ \A c \in Cancelers : ~ CancelInFlight(c)

SeqNext ==
    \/ \E p \in Bookers : NoneInFlight /\ BookCheck(p) /\ UNCHANGED <<tokenVars, evalVars, availVars, queueVars, statusVars, postVars>>
    \/ \E p \in Bookers : BookFindCustomer(p) /\ UNCHANGED <<tokenVars, evalVars, availVars, queueVars, statusVars, postVars>>
    \/ \E p \in Bookers : BookCreateCustomer(p) /\ UNCHANGED <<tokenVars, evalVars, availVars, queueVars, statusVars, postVars>>
    \/ \E p \in Bookers : BookCreate(p) /\ UNCHANGED <<tokenVars, evalVars, availVars, queueVars, statusVars, postVars>>
    \/ \E c \in Cancelers : NoneInFlight /\ CancelFind(c) /\ UNCHANGED <<tokenVars, evalVars, availVars, queueVars, statusVars, postVars>>
    \/ \E c \in Cancelers : CancelUpdate(c) /\ UNCHANGED <<tokenVars, evalVars, availVars, queueVars, statusVars, postVars>>

SeqSpec == Init /\ [][SeqNext]_vars

\* availability queries: the table, the clock and the query are the inputs
Day(n) == n * DAY_MS

AvailRow(id, barberId, startTime, durationMin, status) ==
    [id |-> id, barberId |-> barberId, serviceId |-> 1, customerId |-> 1,
     barbershopId |-> 1, startTime |-> startTime,
     endTime |-> startTime + durationMin * MINUTE_MS, status |-> status]

\* rows an Appointment table may hold: one per (barberId, startTime); startTime
\* is any instant the body carried, durations are those of the services
AvailCandidates ==
    << AvailRow(1, 1, Day(1) + 9 * HOUR_MS, 30, "SCHEDULED"),
       AvailRow(2, 1, Day(1) + 9 * HOUR_MS + 30 * MINUTE_MS, 30, "CANCELED"),
       AvailRow(3, 1, Day(1) + 10 * HOUR_MS, 60, "SCHEDULED"),
       AvailRow(4, 2, Day(1) + 10 * HOUR_MS + 30 * MINUTE_MS, 30, "SCHEDULED"),
       AvailRow(5, 1, Day(2) + 9 * HOUR_MS, 30, "SCHEDULED"),
       AvailRow(6, 1, Day(0) + 9 * HOUR_MS, 30, "COMPLETED"),
       AvailRow(7, 1, Day(1) + 11 * HOUR_MS + 15 * MINUTE_MS, 30, "SCHEDULED") >>

\* every slot of day 1 booked for barber 1
AvailFullDay ==
    [i \in 1..SlotCount |->
        AvailRow(i, 1, generateDaySlots(Day(1))[i].startTime, 30, "SCHEDULED")]

AvailTables ==
    {AvailFullDay} \cup
    { LET In(row) == row.id \in S IN SelectSeq(AvailCandidates, In) :
        S \in SUBSET (1..Len(AvailCandidates)) }

AvailDates == {Day(0), Day(0) + 23 * HOUR_MS, Day(1), Day(1) + 14 * HOUR_MS, Day(2)}

AvailNows ==
    {Day(1) + 8 * HOUR_MS, Day(1) + 9 * HOUR_MS, Day(1) + 9 * HOUR_MS + 1,
     Day(1) + 10 * HOUR_MS + 15 * MINUTE_MS,
     Day(1) + 17 * HOUR_MS + 30 * MINUTE_MS, Day(1) + 18 * HOUR_MS}

AvailInit ==
    /\ TokenInit
    /\ appointments \in AvailTables
    /\ customers = <<>>
    /\ bk = [p \in Bookers |-> IdleBook]
    /\ cn = [c \in Cancelers |-> IdleCancel]
    /\ evIn = NullRow /\ evNow = 0 /\ evOut = "none"
    /\ avIn \in [barberId : Barbers, date : AvailDates]
    /\ avNow \in AvailNows
    /\ avOut = <<>> /\ avQueried = 0 /\ avSeen = 0 /\ avPc = "idle"
    /\ QueueIdle /\ StatusIdle /\ PostIdle

AvailNext ==
    GetAvailability /\ UNCHANGED <<tokenVars, bookVars, evalVars, queueVars, statusVars, postVars>>

AvailSpec == AvailInit /\ [][AvailNext]_vars

\* the queue: the enum has two statuses that no use case here writes
\* (IN_SERVICE, COMPLETED); a row in one of them may be in the table from
\* the start
SeedItems ==
    {<<>>} \cup
    { <<[id |-> 1, customerId |-> 1, barbershopId |-> 1, status |-> s,
         joinedAt |-> 1]>> : s \in {"IN_SERVICE", "COMPLETED"} }

QueueInit ==
    /\ TokenInit /\ BookInit /\ AvailIdle /\ StatusIdle /\ PostIdle
    /\ evIn = NullRow /\ evNow = 0 /\ evOut = "none"
    /\ queueItems \in SeedItems
    /\ jn = [p \in Joiners |-> IdleJoin]
    /\ cl = [c \in Callers |-> IdleCall]
    /\ lv = [l \in Leavers |-> IdleLeave]

QueueRest == <<tokenVars, bookVars, evalVars, availVars, statusVars, postVars>>

QueueNext ==
    \/ \E p \in Joiners : JoinStart(p) /\ UNCHANGED QueueRest
    \/ \E p \in Joiners : JoinFindActive(p) /\ UNCHANGED QueueRest
    \/ \E p \in Joiners : JoinCreate(p) /\ UNCHANGED QueueRest
    \/ \E p \in Joiners : JoinCount(p) /\ UNCHANGED QueueRest
    \/ \E c \in Callers : CallFind(c) /\ UNCHANGED QueueRest
    \/ \E c \in Callers : CallUpdate(c) /\ UNCHANGED QueueRest
    \/ \E l \in Leavers : LeaveFind(l) /\ UNCHANGED QueueRest
    \/ \E l \in Leavers : LeaveUpdate(l) /\ UNCHANGED QueueRest

QueueSpec == QueueInit /\ [][QueueNext]_vars

\* status requests running concurrently on a table of two scheduled
\* appointments, one of barbershop 1 and one of barbershop 2
StatusInit ==
    /\ TokenInit /\ AvailIdle /\ QueueIdle /\ StatusIdle /\ PostIdle
    /\ evIn = NullRow /\ evNow = 0 /\ evOut = "none"
    /\ appointments =
          << AvailRow(1, 1, Day(1) + 9 * HOUR_MS, 30, "SCHEDULED"),
             [AvailRow(2, 2, Day(1) + 9 * HOUR_MS, 30, "SCHEDULED")
                 EXCEPT !.barbershopId = 2] >>
    /\ customers = <<[id |-> 1, phone |-> 1]>>
    /\ bk = [p \in Bookers |-> IdleBook]
    /\ cn = [c \in Cancelers |-> IdleCancel]

StatusNext ==
    \/ \E u \in Updaters : UpdateFind(u) /\ UNCHANGED <<tokenVars, customers, bk, cn, evalVars, availVars, queueVars, postVars>>
    \/ \E u \in Updaters : UpdateWrite(u) /\ UNCHANGED <<tokenVars, customers, bk, cn, evalVars, availVars, queueVars, postVars>>

StatusSpec == StatusInit /\ [][StatusNext]_vars

\* availability asked once, at any moment between bookings and cancellations
\* that run one at a time
OfferNext ==
    \/ NoneInFlight /\ GetAvailability /\ UNCHANGED <<tokenVars, bookVars, evalVars, queueVars, statusVars, postVars>>
    \/ \E p \in Bookers : NoneInFlight /\ BookCheck(p) /\ UNCHANGED <<tokenVars, evalVars, availVars, queueVars, statusVars, postVars>>
    \/ \E p \in Bookers : BookFindCustomer(p) /\ UNCHANGED <<tokenVars, evalVars, availVars, queueVars, statusVars, postVars>>
    \/ \E p \in Bookers : BookCreateCustomer(p) /\ UNCHANGED <<tokenVars, evalVars, availVars, queueVars, statusVars, postVars>>
    \/ \E p \in Bookers : BookCreate(p) /\ UNCHANGED <<tokenVars, evalVars, availVars, queueVars, statusVars, postVars>>
    \/ \E c \in Cancelers : NoneInFlight /\ CancelFind(c) /\ UNCHANGED <<tokenVars, evalVars, availVars, queueVars, statusVars, postVars>>
    \/ \E c \in Cancelers : CancelUpdate(c) /\ UNCHANGED <<tokenVars, evalVars, availVars, queueVars, statusVars, postVars>>

OfferSpec == Init /\ [][OfferNext]_vars

\* POST /appointments with the session of one validated booking link, one
\* request at a time, at one instant of the clock: midnight or 09:15
PostQuiet == \A q \in Bookers : po[q].pc \in {"idle", "sent"}

PostInit ==
    /\ TokenInit /\ AvailIdle /\ QueueIdle /\ StatusIdle /\ PostIdle
    /\ evIn = NullRow /\ evNow = 0 /\ evOut = "none"
    /\ appointments = <<>>
    /\ customers = createCustomer(<<>>, SessionPhone)
    /\ bk = [p \in Bookers |-> IdleBook]
    /\ cn = [c \in Cancelers |-> IdleCancel]

PostRest == <<ticks, tokens, issueOut, val, sessions, usedWrites, incDone,
              passed, crashed, rsp, evalVars, availVars, queueVars, statusVars>>

\* the clock of the server when the requests arrive
PostSetClock ==
    /\ now = 0 /\ appointments = <<>>
    /\ \A p \in Bookers : po[p].pc = "idle"
    /\ now' = 9 * HOUR_MS + 15 * MINUTE_MS
    /\ UNCHANGED <<PostRest, bookVars, postVars>>

PostNext ==
    \/ PostSetClock
    \/ \E p \in Bookers : PostQuiet /\ PostReceive(p) /\ UNCHANGED <<now, PostRest>>
    \/ \E p \in Bookers : BookFindCustomer(p) /\ UNCHANGED <<now, PostRest, postVars>>
    \/ \E p \in Bookers : BookCreateCustomer(p) /\ UNCHANGED <<now, PostRest, postVars>>
    \/ \E p \in Bookers : BookCreate(p) /\ UNCHANGED <<now, PostRest, postVars>>
    \/ \E p \in Bookers : PostReply(p) /\ UNCHANGED <<now, PostRest>>

PostSpec == PostInit /\ [][PostNext]_vars

\* ================================================================ claims

Done(p) == val[p].pc = "done"
FoundRow(p) == val[p].tokenData.id # 0

\* C1: a single-use token yields at most one BookingSession, whatever the
\* interleaving of the validate requests racing on it.
C1_AtMostOneSession ==
    \A t \in 1..Len(tokens) : tokens[t].singleUse => sessions[t] <= 1

\* C2: a validate request that looks the token up after a session has been
\* returned for it, whose state check runs no later than expiresAt and which
\* is not rate limited, fails with TokenAlreadyUsedError (410 TOKEN_USED);
\* it never reaches markAsUsed and returns no session.
C2_SecondValidateIsUsed ==
    \A p \in Validators :
        (FoundRow(p) /\ val[p].afterSession /\ val[p].checkedAt # NULL
            /\ val[p].checkedAt <= val[p].tokenData.expiresAt
            /\ val[p].result # "TokenRateLimitedError")
        => /\ val[p].pc = "done"
           /\ val[p].result = "TokenAlreadyUsedError"
           /\ ValidateResponse(val[p].result) = [status |-> 410, code |-> "TOKEN_USED"]

C2_Witness ==
    \E p \in Validators :
        /\ Done(p) /\ val[p].afterSession
        /\ val[p].checkedAt <= val[p].tokenData.expiresAt
        /\ val[p].result = "TokenAlreadyUsedError"

SameSlot(i, j) ==
    /\ appointments[i].barberId = appointments[j].barberId
    /\ appointments[i].startTime = appointments[j].startTime

\* C3: no two appointments whose status is not CANCELED have the same
\* barberId and the same startTime, in every state reached by concurrent
\* book and cancel requests.
C3_NoDoubleBooking ==
    \A i, j \in 1..Len(appointments) :
        (i # j /\ appointments[i].status # "CANCELED"
               /\ appointments[j].status # "CANCELED")
        => ~ SameSlot(i, j)

\* two requests found the slot free, one inserted and the index stopped the other
C3_Witness ==
    \E p, q \in Bookers :
        /\ p # q /\ bk[p].pc = "done" /\ bk[q].pc = "done"
        /\ bk[p].rival = q /\ bk[q].rival = p
        /\ bk[p].result = "Appointment" /\ bk[q].result = "P2002"
        /\ bk[q].customerId # 0

RowsOfSlot(barberId, startTime) ==
    {i \in 1..Len(appointments) :
        appointments[i].barberId = barberId /\ appointments[i].startTime = startTime}

\* C4: of two book requests that both found the same (barberId, startTime)
\* free before either inserted, and both reached the insert, exactly one
\* returns an Appointment, the other fails with SlotOccupiedError, and one
\* row exists for the slot.
C4_LoserSeesSlotOccupied ==
    \A p, q \in Bookers :
        (/\ p # q /\ bk[p].pc = "done" /\ bk[q].pc = "done"
         /\ bk[p].rival = q /\ bk[q].rival = p
         /\ bk[p].isAvailable /\ bk[q].isAvailable
         /\ bk[p].customerId # 0 /\ bk[q].customerId # 0
         /\ bk[p].result = "Appointment")
        => /\ bk[q].result = "SlotOccupiedError"
           /\ Cardinality(RowsOfSlot(bk[p].barberId, bk[p].startTime)) = 1

\* C5: with one request at a time, a book request that finds no
\* non-canceled appointment for its (barberId, startTime) succeeds and
\* persists an appointment; one that finds such an appointment fails with
\* SlotOccupiedError (409) and creates no row.
C5_SequentialBooking ==
    \A p \in Bookers :
        bk[p].pc = "done" =>
            IF bk[p].isAvailable
            THEN /\ bk[p].result = "Appointment"
                 /\ bk[p].appointmentId \in 1..Len(appointments)
            ELSE /\ bk[p].result = "SlotOccupiedError"
                 /\ BookResponse(bk[p].result).status = 409
                 /\ bk[p].appointmentId = 0

\* the rules of the decision order, each on its own
RuleNotFound == evIn.id = 0
RuleRateLimited ==
    /\ evIn.validationAttempts >= 5
    /\ evIn.lastAttemptAt # NULL
    /\ evNow - evIn.lastAttemptAt < 60 * 1000
RuleExpired == evNow > evIn.expiresAt
RuleUsed == evIn.singleUse /\ evIn.usedAt # NULL

\* C6: validateTokenState returns the first matching rule in the order
\* not_found, rate_limited, expired, already_used, and valid when none
\* matches; an expired or used record inside the rate-limit window is
\* rate_limited, and a used record with singleUse = false that is neither
\* rate limited nor expired is valid.
C6_DecisionOrder ==
    evOut # "none" =>
        /\ RuleNotFound => evOut = "not_found"
        /\ (~ RuleNotFound /\ RuleRateLimited) => evOut = "rate_limited"
        /\ (~ RuleNotFound /\ ~ RuleRateLimited /\ RuleExpired) => evOut = "expired"
        /\ (~ RuleNotFound /\ ~ RuleRateLimited /\ ~ RuleExpired /\ RuleUsed)
              => evOut = "already_used"
        /\ (~ RuleNotFound /\ ~ RuleRateLimited /\ ~ RuleExpired /\ ~ RuleUsed)
              => evOut = "valid"
        /\ (~ RuleNotFound /\ ~ evIn.singleUse /\ evIn.usedAt # NULL
              /\ ~ RuleRateLimited /\ ~ RuleExpired) => evOut = "valid"

\* an expired, used record inside the window has been evaluated
C6_Witness ==
    /\ evOut = "rate_limited"
    /\ evIn.id # 0 /\ RuleExpired /\ RuleUsed

\* C7: a validate request whose state check runs after expiresAt returns no
\* session; unless it is rate limited it fails with TokenExpiredError
\* (410 TOKEN_EXPIRED), and its only write is the attempt increment, so
\* usedAt is left as it was.
C7_ExpiredNeverYieldsSession ==
    \A p \in Validators :
        (FoundRow(p) /\ val[p].checkedAt # NULL
            /\ val[p].checkedAt > val[p].tokenData.expiresAt)
        => /\ val[p].pc = "done"
           /\ val[p].result \in {"TokenExpiredError", "TokenRateLimitedError"}
           /\ val[p].result # "TokenRateLimitedError" =>
                ValidateResponse(val[p].result) =
                    [status |-> 410, code |-> "TOKEN_EXPIRED"]
           /\ val[p].usedArg = NULL
           /\ val[p].writes = 1

C7_Witness ==
    \E p \in Validators :
        /\ Done(p) /\ FoundRow(p)
        /\ val[p].checkedAt > val[p].tokenData.expiresAt
        /\ val[p].result = "TokenExpiredError"
        /\ tokens[val[p].tokenData.id].usedAt = NULL

C9_UsedAtWrittenOnce ==
    \A t \in 1..Len(tokens) : usedWrites[t] <= 1

\* C10: no step lowers the validationAttempts of an existing row, and no
\* step removes a row.
C10_AttemptsNeverDecrease ==
    [][/\ Len(tokens') >= Len(tokens)
       /\ \A t \in 1..Len(tokens) :
            tokens'[t].validationAttempts >= tokens[t].validationAttempts]_vars

\* a counted token has been marked used
C10_Witness ==
    \E t \in 1..Len(tokens) :
        tokens[t].validationAttempts >= 1 /\ tokens[t].usedAt # NULL

\* C11: a validate request on an unused, unexpired token that stops after
\* the increment and before markAsUsed has written no usedAt and returned no
\* session, and the token yields at most one BookingSession in total.
C11_CrashKeepsSingleUse ==
    /\ \A p \in Validators :
          val[p].result = "crashed" => (val[p].writes = 1 /\ val[p].usedArg = NULL)
    /\ \A t \in 1..Len(tokens) : crashed[t] => sessions[t] <= 1

\* C12: a validate call on a token that already has 5 or more recorded
\* attempts fails with TokenRateLimitedError (429) when its state check runs
\* less than 60 seconds after the previous call's attempt, and is not
\* rate-limited when 60 seconds or more have passed: it is then decided by
\* expiry and use, so an unused, unexpired token is accepted.
Limited(p) ==
    /\ Done(p) /\ FoundRow(p) /\ val[p].checkedAt # NULL
    /\ val[p].tokenData.validationAttempts >= 5
    /\ val[p].tokenData.lastAttemptAt # NULL

SinceLast(p) == val[p].checkedAt - val[p].tokenData.lastAttemptAt

C12_RateLimitWindow ==
    \A p \in Validators : Limited(p) =>
        /\ SinceLast(p) < 60 * 1000 =>
              /\ val[p].result = "TokenRateLimitedError"
              /\ ValidateResponse(val[p].result) =
                     [status |-> 429, code |-> "RATE_LIMITED"]
        /\ SinceLast(p) >= 60 * 1000 =>
              /\ val[p].result # "TokenRateLimitedError"
              /\ val[p].checkedAt > val[p].tokenData.expiresAt =>
                     val[p].result = "TokenExpiredError"
              /\ (/\ val[p].checkedAt <= val[p].tokenData.expiresAt
                  /\ val[p].tokenData.usedAt # NULL) =>
                     val[p].result = "TokenAlreadyUsedError"
              /\ (/\ val[p].checkedAt <= val[p].tokenData.expiresAt
                  /\ val[p].tokenData.usedAt = NULL) =>
                     val[p].result = "session"

\* a call 60 seconds after the fifth attempt on an unused token is accepted
C12_Witness ==
    \E p \in Validators :
        /\ Limited(p) /\ SinceLast(p) >= 60 * 1000
        /\ val[p].tokenData.usedAt = NULL
        /\ val[p].result = "session"

\* a call inside the window is refused
C12_WitnessLimited ==
    \E p \in Validators :
        /\ Limited(p) /\ SinceLast(p) < 60 * 1000
        /\ val[p].result = "TokenRateLimitedError"

\* C13: issue creates exactly one row, single-use, unused, with no attempts,
\* whose tokenHash is the hash of the last path segment of the returned
\* bookingUrl and which holds no plaintext; the first validate of that
\* plaintext before expiry returns a session carrying the issued
\* barbershopId, barberId and customerPhone and the row's id as tokenId.
IssuedRow(rows, out) ==
    /\ Len(out.bookingUrl) = 3
    /\ LET row == rows[Len(rows)]
           plaintext == LastSegment(out.bookingUrl)
       IN /\ row.singleUse /\ row.usedAt = NULL /\ row.validationAttempts = 0
          /\ row.tokenHash = hashToken(plaintext)
          /\ "plainToken" \notin DOMAIN row /\ row.tokenHash # plaintext
          /\ row.barbershopId = out.input.barbershopId
          /\ row.barberId = out.input.barberId
          /\ row.customerPhone = out.input.customerPhone

FirstValidate(p) ==
    /\ Done(p) /\ FoundRow(p) /\ val[p].checkedAt # NULL
    /\ val[p].tokenData.validationAttempts = 0
    /\ val[p].checkedAt <= val[p].tokenData.expiresAt
    /\ issueOut.status = 201
    /\ val[p].plainToken = LastSegment(issueOut.bookingUrl)

RoundTrip(p) ==
    /\ val[p].result = "session"
    /\ val[p].session =
          [barbershopId |-> issueOut.input.barbershopId,
           barberId |-> issueOut.input.barberId,
           customerPhone |-> issueOut.input.customerPhone,
           tokenId |-> findByHash(tokens, hashToken(val[p].plainToken)).id]

C13_IssueValidateRoundTrip ==
    [][ /\ issueOut' # issueOut =>
             IF issueOut'.status = 201
             THEN /\ Len(tokens') = Len(tokens) + 1
                  /\ SubSeq(tokens', 1, Len(tokens)) = tokens
                  /\ IssuedRow(tokens', issueOut')
             ELSE tokens' = tokens
        /\ Len(tokens') # Len(tokens) => issueOut'.status = 201
        /\ \A p \in Validators : FirstValidate(p)' => RoundTrip(p)' ]_vars

C13_Witness ==
    \E p \in Validators :
        /\ FirstValidate(p) /\ RoundTrip(p)
        /\ val[p].session.barberId = 1 /\ val[p].session.tokenId = 1

\* C18: for a body that passes the schema, POST /auth/booking-link answers
\* 404 and creates no BookingToken row when the barbershop has no row or when
\* a barberId is supplied whose barber is not of that barbershop; otherwise
\* it answers 201 and creates exactly one row (barberId may be omitted).
LinkRefused(input) ==
    \/ input.barbershopId \notin BarbershopTable
    \/ /\ input.barberId # NULL
       /\ [id |-> input.barberId, barbershopId |-> input.barbershopId]
             \notin BarberTable

C18_WitnessCreated ==
    /\ issueOut.status = 201 /\ issueOut.input.barberId = NULL
    /\ Len(tokens) = 1

\* C14: availability returns exactly the slots of the fixed grid of the
\* requested date (09:00, 09:30, ..., 17:30) that start strictly after the
\* current moment and at no startTime of a non-canceled appointment of that
\* barber on that date; a slot starting exactly now is excluded, a fully
\* booked day gives the empty sequence, a future free day gives all 18.
GridStarts(date) ==
    { (date - (date % (24 * 60 * 60 * 1000))) + (9 * 60 + 30 * k) * 60 * 1000 :
        k \in 0..17 }

Blocked(barberId, startTime) ==
    \E i \in 1..Len(appointments) :
        /\ appointments[i].barberId = barberId
        /\ appointments[i].startTime = startTime
        /\ appointments[i].status # "CANCELED"

Offered == { avOut[i].startTime : i \in 1..Len(avOut) }

C14_AvailabilityExact ==
    avPc = "done" =>
        /\ Offered = { s \in GridStarts(avIn.date) :
                         s > avNow /\ ~Blocked(avIn.barberId, s) }
        /\ Cardinality(Offered) = Len(avOut)
        /\ avNow \notin Offered
        /\ (\A s \in GridStarts(avIn.date) : Blocked(avIn.barberId, s))
              => avOut = <<>>
        /\ (/\ avIn.date - (avIn.date % (24 * 60 * 60 * 1000)) > avNow
            /\ \A s \in GridStarts(avIn.date) : ~Blocked(avIn.barberId, s))
              => Len(avOut) = 18

\* asked at 09:00 sharp with 10:00 booked: 09:30 is offered, 09:00 and 10:00
\* are not
C14_Witness ==
    /\ avPc = "done" /\ avNow \in GridStarts(avIn.date)
    /\ \E s \in GridStarts(avIn.date) : s > avNow /\ Blocked(avIn.barberId, s)
    /\ \E s \in Offered : s = avNow + 30 * 60 * 1000

\* C15: for a date whose local midnight is before today's local midnight,
\* availability returns the empty sequence without asking storage for the
\* booked appointments.
C15_PastDateEmptyNoQuery ==
    (/\ avPc = "done"
     /\ avIn.date - (avIn.date % (24 * 60 * 60 * 1000))
           < avNow - (avNow % (24 * 60 * 60 * 1000)))
        => (avOut = <<>> /\ avQueried = 0)

C15_Witness ==
    /\ avPc = "done" /\ avOut = <<>> /\ avQueried = 0
    /\ avIn.date = 23 * 60 * 60 * 1000
    /\ \E i \in 1..Len(appointments) : appointments[i].startTime < avIn.date

\* C16: the returned sequence is strictly ascending by startTime and every
\* slot ends exactly 30 minutes after it starts, whatever the durations of
\* the booked appointments.
C16_AscendingHalfHours ==
    avPc = "done" =>
        /\ \A i \in 1..Len(avOut) :
              avOut[i].endTime = avOut[i].startTime + 30 * 60 * 1000
        /\ \A i \in 1..Len(avOut), j \in 1..Len(avOut) :
              i < j => avOut[i].startTime < avOut[j].startTime

\* slots were returned on a day that holds a 60-minute appointment
C16_Witness ==
    /\ avPc = "done" /\ Len(avOut) >= 2
    /\ \E i \in 1..Len(appointments) :
          /\ appointments[i].barberId = avIn.barberId
          /\ appointments[i].endTime - appointments[i].startTime = 60 * 60 * 1000
          /\ \E k \in 1..Len(avOut) :
                avOut[k].startTime = appointments[i].startTime + 30 * 60 * 1000

\* C19: a customer never has more than one WAITING queue item for the same
\* barbershop, also when two joins of that customer for that barbershop run
\* at the same time.
WaitingItems(customerId, barbershopId) ==
    { i \in 1..Len(queueItems) :
        /\ queueItems[i].customerId = customerId
        /\ queueItems[i].barbershopId = barbershopId
        /\ queueItems[i].status = "WAITING" }

C19_OneWaitingItemPerQueue ==
    \A customerId \in JoinCustomers, barbershopId \in JoinShops :
        Cardinality(WaitingItems(customerId, barbershopId)) <= 1

\* C20: every status change made by CallCustomer is from WAITING to
\* NOTIFIED; a call that finds the item NOTIFIED succeeds without a write; a
\* call that finds any other status fails with InvalidQueueStatusError and
\* writes nothing; a call for a missing item fails with
\* QueueItemNotFoundError.
C20_CallOnlyFromWaiting ==
    \A c \in Callers :
        /\ cl[c].wroteFrom \in {"none", "WAITING", "NOTIFIED"}
        /\ cl[c].pc = "done" =>
              /\ cl[c].status = "NOTIFIED" =>
                    (cl[c].result = "NOTIFIED" /\ cl[c].writes = 0)
              /\ cl[c].status \in {"IN_SERVICE", "CANCELED", "COMPLETED"} =>
                    (cl[c].result = "InvalidQueueStatusError" /\ cl[c].writes = 0)
              /\ cl[c].status = "none" =>
                    (cl[c].result = "QueueItemNotFoundError" /\ cl[c].writes = 0)

\* C17: GET /auth/booking/{token} sets the session cookie and answers 200
\* only when validation returned a session; TokenNotFound is answered 404
\* INVALID_TOKEN, TokenExpired 410 TOKEN_EXPIRED, TokenAlreadyUsed 410
\* TOKEN_USED, TokenRateLimited 429 RATE_LIMITED, each without a cookie; a
\* path token shorter than 32 characters is answered 400 with no token
\* lookup and no attempt increment.
Answered(p, result, status, code) ==
    rsp[p].result = result =>
        (rsp[p].status = status /\ rsp[p].code = code /\ rsp[p].cookie = NoCookie)

C17_ValidateResponses ==
    \A p \in Validators : rsp[p].pc = "sent" =>
        /\ (rsp[p].status = 200 \/ rsp[p].cookie # NoCookie) =>
              /\ rsp[p].result = "session"
              /\ rsp[p].status = 200
              /\ rsp[p].cookie.sub # 0 /\ rsp[p].cookie.role = "CLIENT"
        /\ Answered(p, "TokenNotFoundError", 404, "INVALID_TOKEN")
        /\ Answered(p, "TokenExpiredError", 410, "TOKEN_EXPIRED")
        /\ Answered(p, "TokenAlreadyUsedError", 410, "TOKEN_USED")
        /\ Answered(p, "TokenRateLimitedError", 429, "RATE_LIMITED")
        /\ rsp[p].token = 0 =>
              /\ rsp[p].status = 400 /\ rsp[p].cookie = NoCookie
              /\ rsp[p].lookups = 0 /\ rsp[p].writes = 0

\* one request was answered 200 with the cookie, another, with a short
\* token, 400
C17_Witness ==
    \E p \in Validators, q \in Validators :
        /\ rsp[p].pc = "sent" /\ rsp[p].status = 200 /\ rsp[p].cookie.sub = 1
        /\ rsp[q].pc = "sent" /\ rsp[q].token = 0 /\ rsp[q].status = 400

C17_WitnessRateLimited ==
    \E p \in Validators : rsp[p].pc = "sent" /\ rsp[p].status = 429

C17_WitnessExpired ==
    \E p \in Validators :
        rsp[p].pc = "sent" /\ rsp[p].code = "TOKEN_EXPIRED"

C17_WitnessUsed ==
    \E p \in Validators : rsp[p].pc = "sent" /\ rsp[p].code = "TOKEN_USED"

C17_WitnessNotFound ==
    \E p \in Validators : rsp[p].pc = "sent" /\ rsp[p].status = 404

\* ---------------------------------------------------------------- C21
StatusDone(u) == us[u].pc = "done"

\* C21: a status request is accepted only when it moves a stored SCHEDULED
\* status to COMPLETED, CANCELED or NO_SHOW: every accepted request replaced
\* a stored SCHEDULED; a request for any other transition ends in
\* InvalidStatusTransitionError and a request for an appointment of another
\* barbershop in AppointmentNotFoundError, both without a write
C21_StatusTransitions ==
    \A u \in Updaters :
        StatusDone(u) =>
            /\ us[u].result = "Appointment" =>
                   /\ us[u].over = "SCHEDULED"
                   /\ us[u].status \in {"COMPLETED", "CANCELED", "NO_SHOW"}
            /\ us[u].result = "InvalidStatusTransitionError" =>
                   /\ us[u].over = "none"
                   /\ ~ (us[u].from = "SCHEDULED"
                            /\ us[u].status \in {"COMPLETED", "CANCELED", "NO_SHOW"})
            /\ us[u].result = "AppointmentNotFoundError" => us[u].over = "none"
            /\ (/\ us[u].appointmentId \in 1..Len(appointments)
                /\ appointments[us[u].appointmentId].barbershopId # us[u].barbershopId)
                  => us[u].result = "AppointmentNotFoundError"

\* ---------------------------------------------------------------- C22
\* C22: of the validate calls made for one token while the clock stands
\* still (all within one 60-second window), running concurrently, at most
\* MAX_VALIDATION_ATTEMPTS get past the rate-limit check
C22_RateLimitConcurrent ==
    \A t \in 1..Len(tokens) :
        ticks = 0 => passed[t] <= MAX_VALIDATION_ATTEMPTS

\* ---------------------------------------------------------------- C23
FailedResults ==
    {"TokenExpiredError", "TokenAlreadyUsedError", "TokenRateLimitedError"}

\* the fields of a token row that a failed call may change are left out
FrameOf(row) ==
    [f \in DOMAIN row \ {"validationAttempts", "lastAttemptAt"} |-> row[f]]

\* C23: a validate call that ends in TokenExpired, TokenAlreadyUsed or
\* TokenRateLimited fails at its state check, having written once; no step
\* of a call before its markAsUsed changes anything but validationAttempts
\* and lastAttemptAt of the call's token row: the other fields of that row,
\* the other token rows and the rows of the other tables stay as they were
C23_FailedValidateFrame ==
    [][\A p \in Validators :
          /\ (val'[p].pc = "done" /\ val[p].pc # "done"
                 /\ val'[p].result \in FailedResults) =>
                (val[p].pc = "incremented" /\ val'[p].writes = 1
                   /\ val'[p].usedArg = NULL)
          /\ (val'[p] # val[p] /\ val[p].pc # "marking") =>
                /\ Len(tokens') = Len(tokens)
                /\ \A t \in 1..Len(tokens) :
                      /\ FrameOf(tokens'[t]) = FrameOf(tokens[t])
                      /\ t # val'[p].tokenData.id => tokens'[t] = tokens[t]
                /\ customers' = customers
                /\ appointments' = appointments
                /\ queueItems' = queueItems]_vars

\* a call answered TokenAlreadyUsed after its one write, the row used
C23_Witness ==
    \E p \in Validators :
        /\ Done(p) /\ val[p].result = "TokenAlreadyUsedError"
        /\ val[p].writes = 1
        /\ tokens[val[p].tokenData.id].usedAt # NULL
        /\ tokens[val[p].tokenData.id].validationAttempts >= 2

C23_WitnessExpired ==
    \E p \in Validators :
        Done(p) /\ val[p].result = "TokenExpiredError" /\ val[p].writes = 1

C23_WitnessRateLimited ==
    \E p \in Validators :
        Done(p) /\ val[p].result = "TokenRateLimitedError" /\ val[p].writes = 1

\* ---------------------------------------------------------------- C24
\* C24: a book call for a slot that the last availability answer offered,
\* with no appointment created for that slot since the answer, succeeds
C24_OfferedSlotBookable ==
    \A p \in Bookers :
        (bk[p].pc = "done" /\ bk[p].offered) => bk[p].result = "Appointment"

\* ---------------------------------------------------------------- C25
Overlap(a, b) == ~ (a.endTime <= b.startTime \/ b.endTime <= a.startTime)

\* C25: no two appointments of one barber that are not canceled overlap in
\* time, endTime being startTime plus the duration of the booked service
C25_NoOverlap ==
    \A i, j \in 1..Len(appointments) :
        (/\ i < j
         /\ appointments[i].barberId = appointments[j].barberId
         /\ appointments[i].status # "CANCELED"
         /\ appointments[j].status # "CANCELED")
          => ~ Overlap(appointments[i], appointments[j])

\* ---------------------------------------------------------------- C26
Created(p) == po[p].pc = "sent" /\ po[p].status = 201

CreatedRow(p) == appointments[po[p].appointmentId]

OnGrid(t) ==
    \E i \in 1..SlotCount : generateDaySlots(t)[i].startTime = t

\* C26: the appointment created by a POST /appointments request starts on
\* the 30-minute grid between 09:00 and 17:30 of its day and strictly after
\* the time at which the request was made
C26_StartTimeOffered ==
    \A p \in Bookers :
        Created(p) =>
            /\ OnGrid(CreatedRow(p).startTime)
            /\ CreatedRow(p).startTime > po[p].calledAt

\* ---------------------------------------------------------------- C27
\* C27: the appointment created with the session of the booking link issued
\* for SessionPhone belongs to the Customer row of that phone, and the
\* booking created no Customer row
C27_SessionCustomer ==
    \A p \in Bookers :
        Created(p) =>
            /\ CreatedRow(p).customerId =
                   findCustomerByPhone(customers, SessionPhone)
            /\ CreatedRow(p).customerId = po[p].user.sub
            /\ Len(customers) = 1

\* ---------------------------------------------------------------- C28
\* C28: the barber and the service of an appointment created through
\* POST /appointments belong to the barbershop of the session, which is the
\* appointment's barbershop, and a barber pinned by the token is the barber
\* of the appointment
C28_TenantScoping ==
    \A p \in Bookers :
        Created(p) =>
            /\ CreatedRow(p).barbershopId = po[p].user.barbershopId
            /\ BarberInBarbershop(CreatedRow(p).barberId,
                                  CreatedRow(p).barbershopId)
            /\ findService(CreatedRow(p).serviceId).barbershopId =
                   CreatedRow(p).barbershopId
            /\ po[p].user.barberId # NULL =>
                   CreatedRow(p).barberId = po[p].user.barberId

\* ---------------------------------------------------------------- C29
\* two finished book calls with one phone for two different slots that both
\* found free, the table holding no appointment but theirs
SamePhonePair(p, q) ==
    /\ p # q
    /\ bk[p].pc = "done" /\ bk[q].pc = "done"
    /\ bk[p].customerPhone = bk[q].customerPhone
    /\ bk[p].isAvailable /\ bk[q].isAvailable
    /\ <<bk[p].barberId, bk[p].startTime>> # <<bk[q].barberId, bk[q].startTime>>
    /\ \A i \in 1..Len(appointments) :
          i \in {bk[p].appointmentId, bk[q].appointmentId}

\* C29: two book calls with the same phone for two different free slots
\* both succeed, whatever their interleaving; one Customer row has that
\* phone and both appointments reference it
C29_FindOrCreateCustomer ==
    \A p, q \in Bookers :
        SamePhonePair(p, q) =>
            /\ bk[p].result = "Appointment" /\ bk[q].result = "Appointment"
            /\ Cardinality({i \in 1..Len(customers) :
                               customers[i].phone = bk[p].customerPhone}) = 1
            /\ appointments[bk[p].appointmentId].customerId =
                   findCustomerByPhone(customers, bk[p].customerPhone)
            /\ appointments[bk[q].appointmentId].customerId =
                   findCustomerByPhone(customers, bk[p].customerPhone)

====
